---- MODULE Spec2Model ----
(***************************************************************************)
(* A model of the namespaced Redis cache store of package cache            *)
(* (src/redis/redis.go): construction of a RedisStore from options or from *)
(* a RedisConfig, and the Set and Get operations issued by concurrent      *)
(* callers against one shared backend.                                     *)
(*                                                                         *)
(* Strings that the code concatenates (namespaces and keys) are sequences  *)
(* of one-character strings, so that namespacing is real concatenation.    *)
(* Durations are integers (time.Duration is a signed integer); one unit is *)
(* one Tick of the backend's clock.                                        *)
(***************************************************************************)
EXTENDS Integers, Sequences, FiniteSets, TLC

VARIABLES
    store,   \* StoreIds -> RedisStore (client, namespace)
    ctor,    \* the latest construction: the store built and the arguments given
    frame,   \* Callers -> the caller's current or last Set/Get call
    db,      \* the backend's entries: namespaced key -> entry
    nrecv,   \* number of commands the backend has received
    ncalls   \* number of Set/Get calls started

vars == <<store, ctor, frame, db, nrecv, ncalls>>

----------------------------------------------------------------------------
(* Bounds of the model *)

\* Largest expiry a caller passes to Set (in ticks).
MaxExpiry == 1

\* Total number of Set/Get calls started in one behaviour.
MaxCalls == 2

\* Longest option list passed to NewRedisStore.
MaxOpts == 3

----------------------------------------------------------------------------
(* Input domains *)

StoreIds == {"s1", "s2", "s3"}
Callers == {"c1", "c2"}

Namespaces == { <<>>, <<"a">>, <<"a", ":", "a">> }
Keys == { <<"a">>, <<"a", ":", "a">> }
Values == {"v", "w"}
Expiries == (-1) .. MaxExpiry

mockAddress == "127.0.0.1:6379"
mockPassword == "password"

\* Error values the driver can hand back. RedisNil is the driver's redis.Nil.
NoErr == "nil"
RedisNil == "redis: nil"
BackendErrors == {"mock error"}

----------------------------------------------------------------------------
(* Construction *)

namespaceSeparator == <<":">>

\* The zero value of redisOptions.
ZeroOptions == [namespace |-> <<>>, clusterMode |-> FALSE, enableTLS |-> FALSE]

WithRedisNamespace(namespace) == [kind |-> "namespace", ns |-> namespace, on |-> FALSE]
WithRedisClusterMode == [kind |-> "clusterMode", ns |-> <<>>, on |-> TRUE]
WithRedisTLS == [kind |-> "tls", ns |-> <<>>, on |-> TRUE]

\* option.apply(opts) for the three RedisOption implementations.
apply(option, opts) ==
    CASE option.kind = "namespace" -> [opts EXCEPT !.namespace = option.ns]
      [] option.kind = "clusterMode" -> [opts EXCEPT !.clusterMode = option.on]
      [] option.kind = "tls" -> [opts EXCEPT !.enableTLS = option.on]

\* for _, option := range options { option.apply(opts) }
RECURSIVE applyAll(_, _)
applyAll(options, opts) ==
    IF options = <<>> THEN opts
    ELSE applyAll(Tail(options), apply(Head(options), opts))

NoTLS == [set |-> FALSE, MinVersion |-> "none"]

\* redis.NewClusterClient(&redis.ClusterOptions{...})
NewClusterClient(address, password, tlsConfig) ==
    [type |-> "ClusterClient", addr |-> address, password |-> password,
     TLSConfig |-> tlsConfig]

\* redis.NewClient(&redis.Options{...})
NewClient(address, password) ==
    [type |-> "Client", addr |-> address, password |-> password,
     TLSConfig |-> NoTLS]

\* Variant: TLS is configured on the single-node client too.
MakeClient_TLSAnyMode(address, password, opts) ==
    LET tlsConfig == IF opts.enableTLS
                     THEN [set |-> TRUE, MinVersion |-> "TLS12"]
                     ELSE NoTLS
    IN  IF opts.clusterMode
        THEN NewClusterClient(address, password, tlsConfig)
        ELSE [NewClient(address, password) EXCEPT !.TLSConfig = tlsConfig]

\* The client NewRedisStore builds from the resolved options.
MakeClient(address, password, opts) ==
    IF opts.clusterMode
    THEN NewClusterClient(address, password,
             IF opts.enableTLS
             THEN [set |-> TRUE, MinVersion |-> "TLS12"]
             ELSE NoTLS)
    ELSE NewClient(address, password)

NewRedisStore(address, password, options) ==
    LET opts == applyAll(options, ZeroOptions)
    IN  [client |-> MakeClient(address, password, opts),
         namespace |-> opts.namespace]

\* RedisConfig.options
ConfigOptions(c) ==
    (IF c.Namespace # <<>> THEN <<WithRedisNamespace(c.Namespace)>> ELSE <<>>)
    \o (IF ~c.DisableClusterMode THEN <<WithRedisClusterMode>> ELSE <<>>)
    \o (IF ~c.DisableTLS THEN <<WithRedisTLS>> ELSE <<>>)

NewRedisStoreFromConfig(config) ==
    NewRedisStore(config.Address, config.Password, ConfigOptions(config))

RedisOptions ==
    {WithRedisNamespace(n) : n \in Namespaces} \cup {WithRedisClusterMode, WithRedisTLS}

RECURSIVE SeqsUpTo(_, _)
SeqsUpTo(S, n) ==
    IF n = 0 THEN { <<>> }
    ELSE LET shorter == SeqsUpTo(S, n - 1)
         IN  shorter \cup { Append(q, x) : q \in shorter, x \in S }

OptionLists == SeqsUpTo(RedisOptions, MaxOpts)

RedisConfigs ==
    [Address : {mockAddress}, Password : {mockPassword}, Namespace : Namespaces,
     DisableClusterMode : BOOLEAN, DisableTLS : BOOLEAN]

NoConfig ==
    [Address |-> "", Password |-> "", Namespace |-> <<>>,
     DisableClusterMode |-> FALSE, DisableTLS |-> FALSE]

\* store := NewRedisStore(address, password, options...)
DoNewRedisStore(s, options) ==
    /\ store' = [store EXCEPT ![s] = NewRedisStore(mockAddress, mockPassword, options)]
    /\ ctor' = [s |-> s, via |-> "options", options |-> options, config |-> NoConfig]
    /\ UNCHANGED <<frame, db, nrecv, ncalls>>

\* store := NewRedisStoreFromConfig(config)
DoNewRedisStoreFromConfig(s, config) ==
    /\ store' = [store EXCEPT ![s] = NewRedisStoreFromConfig(config)]
    /\ ctor' = [s |-> s, via |-> "config", options |-> <<>>, config |-> config]
    /\ UNCHANGED <<frame, db, nrecv, ncalls>>

----------------------------------------------------------------------------
(* Errors of package cache *)

NilError == [kind |-> "nil", key |-> <<>>, cause |-> NoErr]
NewInvalidExpiry == [kind |-> "InvalidExpiry", key |-> <<>>, cause |-> NoErr]
NewSetError(key, err) == [kind |-> "SetError", key |-> key, cause |-> err]
NewKeyNotFound(key) == [kind |-> "KeyNotFound", key |-> key, cause |-> NoErr]
NewGetError(key, err) == [kind |-> "GetError", key |-> key, cause |-> err]

----------------------------------------------------------------------------
(* The backend behind the redisClient interface *)

NoSrc == [store |-> "none", key |-> <<>>, value |-> ""]
NoReply == [val |-> "", err |-> NoErr, src |-> NoSrc]

\* The entry a successful SET leaves: a positive expiry is the entry's time
\* to live; the driver sends no expiry for a non-positive one, and the entry
\* then persists. src records which call wrote the entry.
SetEntry(cmd, src) ==
    [value |-> cmd.value, persist |-> ~(cmd.expiry > 0),
     ttl |-> IF cmd.expiry > 0 THEN cmd.expiry ELSE 0, src |-> src]

\* The backend's entries after a successful SET.
DbSet(d, cmd, src) ==
    [k \in DOMAIN d \cup {cmd.key} |-> IF k = cmd.key THEN SetEntry(cmd, src) ELSE d[k]]

\* The backend's answer to a GET it serves: the value, or redis.Nil when the
\* key is absent (never set, or expired).
DbGet(d, key) ==
    IF key \in DOMAIN d
    THEN [val |-> d[key].value, err |-> NoErr, src |-> d[key].src]
    ELSE [val |-> "", err |-> RedisNil, src |-> NoSrc]

\* The backend's entries one tick later: entries whose time to live ends expire.
DbTick(d) ==
    [k \in {j \in DOMAIN d : d[j].persist \/ d[j].ttl > 1} |->
        IF d[k].persist THEN d[k] ELSE [d[k] EXCEPT !.ttl = @ - 1]]

\* Time passes at the backend.
Tick ==
    /\ \E k \in DOMAIN db : ~db[k].persist
    /\ db' = DbTick(db)
    /\ UNCHANGED <<store, ctor, frame, nrecv, ncalls>>

----------------------------------------------------------------------------
(* RedisStore.Set and RedisStore.Get *)

IdleFrame ==
    [pc |-> "idle", op |-> "none", store |-> "s1", key |-> <<>>, value |-> "",
     expiry |-> 0, nkey |-> <<>>, cmds |-> <<>>, reply |-> NoReply,
     value_out |-> "", err |-> NilError]

\* Variant: the separator is left out of the prefixed key.
namespaceKey_NoSeparator(s, key) ==
    IF s.namespace # <<>>
    THEN s.namespace \o key
    ELSE key

\* Variant: the namespace is not applied.
namespaceKey_Unprefixed(s, key) == key

namespaceKey(s, key) ==
    IF s.namespace # <<>>
    THEN s.namespace \o namespaceSeparator \o key
    ELSE key

\* Variant: only negative expiries are rejected.
RejectsExpiry_Negative(expiry) == expiry < 0

\* if expiry == 0 { return NewInvalidExpiry() }
RejectsExpiry(expiry) == expiry = 0

\* Variant: the backend's error is swallowed.
SetResult_Swallow(key, err) == NilError

\* The error Set returns for the backend's answer err to its SET of key.
SetResult(key, err) ==
    IF err # NoErr THEN NewSetError(key, err) ELSE NilError

\* Variant: redis.Nil is not told apart from other errors.
GetResult_NoNilCase(key, value, err) ==
    IF err # NoErr
    THEN [value |-> "", err |-> NewGetError(key, err)]
    ELSE [value |-> value, err |-> NilError]

\* Variant: the value read is dropped.
GetResult_DropValue(key, value, err) ==
    IF err # NoErr
    THEN IF err = RedisNil
         THEN [value |-> "", err |-> NewKeyNotFound(key)]
         ELSE [value |-> "", err |-> NewGetError(key, err)]
    ELSE [value |-> "", err |-> NilError]

\* The (value, error) Get returns for the backend's answer to its GET of key.
GetResult(key, value, err) ==
    IF err # NoErr
    THEN IF err = RedisNil
         THEN [value |-> "", err |-> NewKeyNotFound(key)]
         ELSE [value |-> "", err |-> NewGetError(key, err)]
    ELSE [value |-> value, err |-> NilError]

CanCall(c) ==
    /\ frame[c].pc \in {"idle", "done"}
    /\ ncalls < MaxCalls

\* Variant: Set keeps the namespaced key in the store, shared by all callers.
SetCall_SharedKey(c, s, key, value, expiry) ==
    /\ CanCall(c)
    /\ ncalls' = ncalls + 1
    /\ LET f == [IdleFrame EXCEPT !.op = "Set", !.store = s, !.key = key,
                                  !.value = value, !.expiry = expiry]
           nkey == namespaceKey(store[s], key)
       IN  IF RejectsExpiry(expiry)
           THEN /\ frame' = [frame EXCEPT ![c] =
                        [f EXCEPT !.pc = "done", !.err = NewInvalidExpiry]]
                /\ store' = store
           ELSE /\ store' = [store EXCEPT ![s].namespace = nkey]
                /\ frame' = [frame EXCEPT ![c] =
                        [f EXCEPT !.pc = "wait", !.nkey = nkey,
                                  !.cmds = <<[op |-> "SET", key |-> nkey,
                                              value |-> value, expiry |-> expiry]>>]]
    /\ UNCHANGED <<ctor, db, nrecv>>

\* Caller c enters s.Set(ctx, key, value, expiry): the expiry check, the
\* namespacing of the key, and the SET handed to the client.
SetCall(c, s, key, value, expiry) ==
    /\ CanCall(c)
    /\ ncalls' = ncalls + 1
    /\ LET f == [IdleFrame EXCEPT !.op = "Set", !.store = s, !.key = key,
                                  !.value = value, !.expiry = expiry]
       IN  IF RejectsExpiry(expiry)
           THEN frame' = [frame EXCEPT ![c] =
                    [f EXCEPT !.pc = "done", !.err = NewInvalidExpiry]]
           ELSE LET nkey == namespaceKey(store[s], key)
                IN  frame' = [frame EXCEPT ![c] =
                        [f EXCEPT !.pc = "wait", !.nkey = nkey,
                                  !.cmds = <<[op |-> "SET", key |-> nkey,
                                              value |-> value, expiry |-> expiry]>>]]
    /\ UNCHANGED <<store, ctor, db, nrecv>>

\* Variant: a failed SET is sent once more before Set gives up.
SetReturn_Retry(c) ==
    /\ frame[c].pc = "wait"
    /\ frame[c].op = "Set"
    /\ nrecv' = nrecv + 1
    /\ LET f == frame[c]
           cmd == f.cmds[Len(f.cmds)]
       IN  \E err \in {NoErr} \cup BackendErrors :
              /\ db' = IF err = NoErr
                       THEN DbSet(db, cmd, [store |-> f.store, key |-> f.key,
                                            value |-> f.value])
                       ELSE db
              /\ frame' = [frame EXCEPT ![c] =
                     IF err # NoErr /\ Len(f.cmds) < 2
                     THEN [f EXCEPT !.cmds = Append(@, cmd)]
                     ELSE [f EXCEPT !.pc = "done",
                                    !.reply = [NoReply EXCEPT !.err = err],
                                    !.err = SetResult(f.nkey, err)]]
    /\ UNCHANGED <<store, ctor, ncalls>>

\* The backend serves c's SET (succeeding, or failing with err) and Set returns.
SetReturn(c) ==
    /\ frame[c].pc = "wait"
    /\ frame[c].op = "Set"
    /\ nrecv' = nrecv + 1
    /\ LET f == frame[c]
           cmd == f.cmds[Len(f.cmds)]
       IN  \E err \in {NoErr} \cup BackendErrors :
              /\ db' = IF err = NoErr
                       THEN DbSet(db, cmd, [store |-> f.store, key |-> f.key,
                                            value |-> f.value])
                       ELSE db
              /\ frame' = [frame EXCEPT ![c] =
                     [f EXCEPT !.pc = "done",
                               !.reply = [NoReply EXCEPT !.err = err],
                               !.err = SetResult(f.nkey, err)]]
    /\ UNCHANGED <<store, ctor, ncalls>>

\* Caller c enters s.Get(ctx, key): the namespacing of the key and the GET
\* handed to the client.
GetCall(c, s, key) ==
    /\ CanCall(c)
    /\ ncalls' = ncalls + 1
    /\ LET nkey == namespaceKey(store[s], key)
       IN  frame' = [frame EXCEPT ![c] =
               [IdleFrame EXCEPT !.pc = "wait", !.op = "Get", !.store = s,
                                 !.key = key, !.nkey = nkey,
                                 !.cmds = <<[op |-> "GET", key |-> nkey,
                                             value |-> "", expiry |-> 0]>>]]
    /\ UNCHANGED <<store, ctor, db, nrecv>>

\* The backend serves c's GET (answering from its entries, or failing with
\* an error) and Get returns.
GetReturn(c) ==
    /\ frame[c].pc = "wait"
    /\ frame[c].op = "Get"
    /\ nrecv' = nrecv + 1
    /\ LET f == frame[c]
           cmd == f.cmds[Len(f.cmds)]
       IN  \E reply \in {DbGet(db, cmd.key)}
                        \cup {[NoReply EXCEPT !.err = e] : e \in BackendErrors} :
              LET r == GetResult(f.nkey, reply.val, reply.err)
              IN  frame' = [frame EXCEPT ![c] =
                      [f EXCEPT !.pc = "done", !.reply = reply,
                                !.value_out = r.value, !.err = r.err]]
    /\ UNCHANGED <<store, ctor, db, ncalls>>

----------------------------------------------------------------------------
(* Specifications *)

\* The namespace each store is configured with.
StoreNamespace ==
    [s \in StoreIds |->
        CASE s = "s1" -> <<>>
          [] s = "s2" -> <<"a">>
          [] s = "s3" -> <<"a", ":", "a">>]

StoreConfig(s) ==
    [Address |-> mockAddress, Password |-> mockPassword,
     Namespace |-> StoreNamespace[s],
     DisableClusterMode |-> FALSE, DisableTLS |-> FALSE]

\* Three stores have been constructed from their configurations, with
\* different namespaces, and share one empty backend; no call has been made.
Init ==
    /\ store = [s \in StoreIds |-> NewRedisStoreFromConfig(StoreConfig(s))]
    /\ ctor = [s |-> "s3", via |-> "config", options |-> <<>>,
               config |-> StoreConfig("s3")]
    /\ frame = [c \in Callers |-> IdleFrame]
    /\ db = << >>
    /\ nrecv = 0
    /\ ncalls = 0

Next ==
    \/ \E c \in Callers, s \in StoreIds, key \in Keys, value \in Values,
          expiry \in Expiries : SetCall(c, s, key, value, expiry)
    \/ \E c \in Callers : SetReturn(c)
    \/ \E c \in Callers, s \in StoreIds, key \in Keys : GetCall(c, s, key)
    \/ \E c \in Callers : GetReturn(c)
    \/ Tick

Spec == Init /\ [][Next]_vars

\* Construction only: a store is built, and rebuilt, from every option list
\* and every configuration (construction does not depend on other stores).
NewStoreIds == {"s1"}

InitNew ==
    /\ store = [s \in StoreIds |-> NewRedisStore(mockAddress, mockPassword, <<>>)]
    /\ ctor = [s |-> "s1", via |-> "options", options |-> <<>>, config |-> NoConfig]
    /\ frame = [c \in Callers |-> IdleFrame]
    /\ db = << >>
    /\ nrecv = 0
    /\ ncalls = 0

NextNew ==
    \/ \E s \in NewStoreIds, options \in OptionLists : DoNewRedisStore(s, options)
    \/ \E s \in NewStoreIds, config \in RedisConfigs : DoNewRedisStoreFromConfig(s, config)

SpecNew == InitNew /\ [][NextNew]_vars

----------------------------------------------------------------------------
(* Properties *)

\* The key the specification prescribes for namespace N and caller key K.
PrescribedKey(N, K) == IF N = <<>> THEN K ELSE N \o <<":">> \o K

HasSeparator(q) == \E i \in 1 .. Len(q) : q[i] = ":"

\* Caller c's call has handed a command to the backend.
Issued(c) == frame[c].cmds # <<>>

\* Caller c's call must reach the backend: a Get, or a Set with non-zero expiry.
MustIssue(c) ==
    \/ frame[c].op = "Get"
    \/ frame[c].op = "Set" /\ frame[c].expiry # 0

\* C1: the key Set (with non-zero expiry) and Get pass to the backend is
\* N + ":" + K for a non-empty namespace N and K itself for the empty one,
\* and Set passes the caller's value and expiry unchanged.
C1_BackendKey ==
    \A c \in Callers :
        LET f == frame[c]
        IN  /\ MustIssue(c) => Issued(c)
            /\ \A i \in 1 .. Len(f.cmds) :
                  /\ f.cmds[i].key = PrescribedKey(store[f.store].namespace, f.key)
                  /\ f.op = "Set" =>
                        /\ f.cmds[i].op = "SET"
                        /\ f.cmds[i].value = f.value
                        /\ f.cmds[i].expiry = f.expiry
                  /\ f.op = "Get" => f.cmds[i].op = "GET"

\* A Set through a namespaced store and a Get through the store without
\* namespace have both handed their command to the backend.
C1_Witness ==
    \E c1, c2 \in Callers :
        /\ frame[c1].op = "Set" /\ Issued(c1)
        /\ store[frame[c1].store].namespace # <<>>
        /\ frame[c2].op = "Get" /\ Issued(c2)
        /\ store[frame[c2].store].namespace = <<>>

\* C2: Set(k, v, 0) returns InvalidExpiry and never invokes the backend:
\* the step that makes the call ends it with InvalidExpiry, hands no
\* command over, and leaves the backend's entries and its count of received
\* commands as they were.
C2_ZeroExpiry ==
    [][\A c \in Callers :
          (frame'[c] # frame[c] /\ frame'[c].op = "Set" /\ frame'[c].expiry = 0)
          => /\ frame'[c].pc = "done"
             /\ frame'[c].err = [kind |-> "InvalidExpiry", key |-> <<>>, cause |-> NoErr]
             /\ frame'[c].cmds = <<>>
             /\ db' = db
             /\ nrecv' = nrecv]_vars

\* A Set with expiry 0 has returned while the backend holds an entry.
C2_Witness ==
    \E c \in Callers :
        /\ frame[c].op = "Set" /\ frame[c].expiry = 0 /\ frame[c].pc = "done"
        /\ frame[c].err.kind = "InvalidExpiry"
        /\ nrecv > 0 /\ db # << >>

\* C3: every expiry that is not strictly greater than zero makes Set return
\* InvalidExpiry, so every SET that reaches the backend carries an expiry
\* greater than zero and every stored value has a bounded lifetime.
C3_ExpiryMustBePositive ==
    /\ \A c \in Callers :
          LET f == frame[c]
          IN  /\ (f.op = "Set" /\ ~(f.expiry > 0)) =>
                    (f.pc = "done" /\ f.err.kind = "InvalidExpiry")
              /\ \A i \in 1 .. Len(f.cmds) :
                    f.cmds[i].op = "SET" => f.cmds[i].expiry > 0
    /\ \A k \in DOMAIN db : ~db[k].persist

\* C4: for Set with expiry > 0 the result mirrors the single backend SET:
\* no error when the SET succeeds, and otherwise a SetError that carries
\* the namespaced key and the backend's error as its cause.
C4_SetMirrorsBackend ==
    \A c \in Callers :
        LET f == frame[c]
            nk == PrescribedKey(store[f.store].namespace, f.key)
        IN  (f.op = "Set" /\ f.expiry > 0 /\ f.pc = "done") =>
               /\ Len(f.cmds) = 1
               /\ f.reply.err = NoErr => f.err.kind = "nil"
               /\ f.reply.err # NoErr =>
                     f.err = [kind |-> "SetError", key |-> nk, cause |-> f.reply.err]

\* A Set through a namespaced store has failed at the backend while another
\* Set has succeeded.
C4_Witness ==
    \E c1, c2 \in Callers :
        /\ frame[c1].op = "Set" /\ frame[c1].expiry > 0 /\ frame[c1].pc = "done"
        /\ frame[c1].reply.err # NoErr
        /\ store[frame[c1].store].namespace # <<>>
        /\ frame[c2].op = "Set" /\ frame[c2].expiry > 0 /\ frame[c2].pc = "done"
        /\ frame[c2].reply.err = NoErr

\* C5: Get returns KeyNotFound exactly when the backend reports the key
\* absent and GetError exactly when the backend GET fails otherwise; in both
\* cases the value is empty and the error carries the namespaced key, and
\* GetError carries the backend's error as its cause.
C5_MissVersusFailure ==
    \A c \in Callers :
        LET f == frame[c]
            nk == PrescribedKey(store[f.store].namespace, f.key)
        IN  (f.op = "Get" /\ f.pc = "done") =>
               /\ f.err.kind = "KeyNotFound" <=> f.reply.err = RedisNil
               /\ f.err.kind = "GetError" <=> f.reply.err \notin {NoErr, RedisNil}
               /\ f.err.kind \in {"KeyNotFound", "GetError"} =>
                     (f.value_out = "" /\ f.err.key = nk)
               /\ f.err.kind = "GetError" => f.err.cause = f.reply.err
               /\ f.err.kind = "KeyNotFound" => f.err.cause = NoErr

\* One Get has missed through a namespaced store and another has failed.
C5_Witness ==
    \E c1, c2 \in Callers :
        /\ frame[c1].op = "Get" /\ frame[c1].pc = "done"
        /\ frame[c1].err.kind = "KeyNotFound"
        /\ store[frame[c1].store].namespace # <<>>
        /\ frame[c2].op = "Get" /\ frame[c2].pc = "done"
        /\ frame[c2].err.kind = "GetError"

\* C6: a Get whose backend GET returns a value returns that value and no
\* error; and a Get the backend serves while it holds the entry written by a
\* Set of the same key through the same store returns the value of that Set.
C6_GetReturnsStoredValue ==
    /\ [](\A c \in Callers :
            (frame[c].op = "Get" /\ frame[c].pc = "done" /\ frame[c].reply.err = NoErr)
            => (frame[c].value_out = frame[c].reply.val /\ frame[c].err.kind = "nil"))
    /\ [][\A c \in Callers :
            (/\ frame[c].op = "Get" /\ frame[c].pc = "wait"
             /\ frame'[c].pc = "done"
             /\ frame'[c].reply.err \notin BackendErrors)
            => \A k \in DOMAIN db :
                  (db[k].src.store = frame[c].store /\ db[k].src.key = frame[c].key)
                  => (/\ frame'[c].value_out = db[k].src.value
                      /\ frame'[c].err.kind = "nil")]_vars

\* A Get through a namespaced store has returned the value set through it.
C6_Witness ==
    \E c \in Callers :
        /\ frame[c].op = "Get" /\ frame[c].pc = "done" /\ frame[c].reply.err = NoErr
        /\ frame[c].reply.src.store = frame[c].store
        /\ frame[c].reply.src.key = frame[c].key
        /\ frame[c].value_out = frame[c].reply.src.value
        /\ frame[c].value_out \in Values
        /\ store[frame[c].store].namespace # <<>>

\* Whether the latest construction asked for cluster mode, and for TLS.
AskedCluster ==
    IF ctor.via = "options"
    THEN \E i \in 1 .. Len(ctor.options) : ctor.options[i].kind = "clusterMode"
    ELSE ~ctor.config.DisableClusterMode

AskedTLS ==
    IF ctor.via = "options"
    THEN \E i \in 1 .. Len(ctor.options) : ctor.options[i].kind = "tls"
    ELSE ~ctor.config.DisableTLS

\* C7: the constructed connection is cluster-type iff cluster mode is
\* enabled and single-node otherwise, and carries a TLS configuration iff
\* cluster mode and TLS are both enabled.
C7_ClientByOptions ==
    LET client == store[ctor.s].client
    IN  /\ client.type = "ClusterClient" <=> AskedCluster
        /\ client.type = "Client" <=> ~AskedCluster
        /\ client.TLSConfig.set <=> (AskedCluster /\ AskedTLS)

\* A store was built with the TLS option but without cluster mode, and is
\* single-node without TLS.
C7_Witness ==
    /\ ctor.via = "options"
    /\ AskedTLS /\ ~AskedCluster
    /\ store[ctor.s].client.type = "Client"
    /\ ~store[ctor.s].client.TLSConfig.set

\* Two calls go through stores with different namespaces.
DifferentNamespaces(s1, s2) == store[s1].namespace # store[s2].namespace

\* C8 as stated: for stores with different namespaces and any caller keys
\* the backend keys differ, so a value written through one store is never
\* returned by Get through the other.
C8_NoCollision ==
    /\ \A c1, c2 \in Callers :
          (Issued(c1) /\ Issued(c2)
           /\ DifferentNamespaces(frame[c1].store, frame[c2].store))
          => frame[c1].cmds[1].key # frame[c2].cmds[1].key
    /\ \A c \in Callers :
          (frame[c].op = "Get" /\ frame[c].pc = "done" /\ frame[c].reply.err = NoErr)
          => ~DifferentNamespaces(frame[c].reply.src.store, frame[c].store)

\* Key K through store s cannot meet another namespace's keys: the
\* namespace holds no separator and, when it is empty, neither does K.
SeparatorFree(s, K) ==
    /\ ~HasSeparator(store[s].namespace)
    /\ store[s].namespace = <<>> => ~HasSeparator(K)

\* C8 amended: for stores with different namespaces that hold no ":", and
\* caller keys that hold no ":" where the namespace is empty, the backend
\* keys differ, and a value written through one store is never returned by
\* Get through the other.
C8_NoCollisionSeparatorFree ==
    /\ \A c1, c2 \in Callers :
          (/\ Issued(c1) /\ Issued(c2)
           /\ DifferentNamespaces(frame[c1].store, frame[c2].store)
           /\ SeparatorFree(frame[c1].store, frame[c1].key)
           /\ SeparatorFree(frame[c2].store, frame[c2].key))
          => frame[c1].cmds[1].key # frame[c2].cmds[1].key
    /\ \A c \in Callers :
          (/\ frame[c].op = "Get" /\ frame[c].pc = "done" /\ frame[c].reply.err = NoErr
           /\ SeparatorFree(frame[c].store, frame[c].key)
           /\ SeparatorFree(frame[c].reply.src.store, frame[c].reply.src.key))
          => ~DifferentNamespaces(frame[c].reply.src.store, frame[c].store)

\* A value was set under a key through one store, the backend still holds
\* it, and a Get of the same key through a store with another namespace,
\* both separator-free, has missed.
C8_Witness ==
    \E c1, c2 \in Callers :
        /\ frame[c1].op = "Set" /\ frame[c1].pc = "done" /\ frame[c1].reply.err = NoErr
        /\ frame[c1].expiry # 0
        /\ frame[c1].cmds[1].key \in DOMAIN db
        /\ frame[c2].op = "Get" /\ frame[c2].pc = "done"
        /\ frame[c2].key = frame[c1].key
        /\ DifferentNamespaces(frame[c1].store, frame[c2].store)
        /\ SeparatorFree(frame[c1].store, frame[c1].key)
        /\ SeparatorFree(frame[c2].store, frame[c2].key)
        /\ frame[c2].err.kind = "KeyNotFound"

\* C9: under any interleaving of Set and Get calls of several callers, the
\* stores keep the namespace and client they were constructed with, every
\* command a call issues carries the key computed from the call's own key
\* and the construction-time namespace (and, for Set, its own value and
\* expiry), and no step of one call changes another caller's call.
C9_ConcurrentUse ==
    /\ [](/\ store = [s \in StoreIds |-> NewRedisStoreFromConfig(StoreConfig(s))]
          /\ \A c \in Callers : \A i \in 1 .. Len(frame[c].cmds) :
                /\ frame[c].cmds[i].key
                      = PrescribedKey(StoreNamespace[frame[c].store], frame[c].key)
                /\ frame[c].op = "Set" =>
                      /\ frame[c].cmds[i].value = frame[c].value
                      /\ frame[c].cmds[i].expiry = frame[c].expiry)
    /\ [][/\ store' = store
          /\ \A c1, c2 \in Callers :
                c1 # c2 => (frame'[c1] = frame[c1] \/ frame'[c2] = frame[c2])]_vars

\* Two callers are inside Set on the same store at once, with different
\* keys and values.
C9_Witness ==
    \E c1, c2 \in Callers :
        /\ c1 # c2
        /\ frame[c1].pc = "wait" /\ frame[c2].pc = "wait"
        /\ frame[c1].op = "Set" /\ frame[c2].op = "Set"
        /\ frame[c1].store = frame[c2].store
        /\ frame[c1].key # frame[c2].key
        /\ frame[c1].value # frame[c2].value

\* C10: every Get and every Set with non-zero expiry issues exactly one
\* backend command of its own kind, never a second one, and returns with
\* the outcome of that command: no error iff the command succeeded, and
\* otherwise an error for that command's failure.
C10_OneCommandPerCall ==
    /\ nrecv <= ncalls
    /\ \A c \in Callers :
          LET f == frame[c]
          IN  /\ Len(f.cmds) <= 1
              /\ MustIssue(c) =>
                    /\ Len(f.cmds) = 1
                    /\ f.cmds[1].op = (IF f.op = "Get" THEN "GET" ELSE "SET")
              /\ (MustIssue(c) /\ f.pc = "done") =>
                    /\ f.err.kind = "nil" <=> f.reply.err = NoErr
                    /\ f.reply.err \in BackendErrors => f.err.cause = f.reply.err

\* A failed Set and a failed Get have both returned, each after its one
\* command, and the backend has received as many commands as calls were made.
C10_Witness ==
    /\ nrecv = ncalls
    /\ \E c1, c2 \in Callers :
          /\ frame[c1].op = "Set" /\ frame[c1].pc = "done"
          /\ frame[c1].reply.err \in BackendErrors
          /\ frame[c2].op = "Get" /\ frame[c2].pc = "done"
          /\ frame[c2].reply.err \in BackendErrors

====
